---- MODULE Spec2Model ----
(***************************************************************************)
(* Model of multi_node/model_runtime_manager.py: the runtime registry      *)
(* (ModelDetails.load_runtimes, clear_kv_cache) and the asynchronous       *)
(* dispatch engine (async_generate_batch_request_per_sec,                  *)
(* async_send_request, select_runtime_with_identifiers); of                *)
(* calc_send_out_times (multi_exp_utils.py) and of the metrics of          *)
(* benchmarks/benchmark_utils.py (update_metrics, gen_benchmark_metrics).  *)
(*                                                                         *)
(* The specifications share the variables:                                 *)
(*   SpecRegistry  provisioning and cache flush of the runtime list;       *)
(*   Spec          one run of the load generator over a loaded registry,   *)
(*                 all interleavings of its coroutines and worker threads; *)
(*   SpecTimed     one run of a single request with the clock advancing;   *)
(*   SpecArrival   a run that follows the computation of its offsets;      *)
(*   SpecShared    runs whose requests share one sampling_params mapping;  *)
(*   SpecMetrics   update and aggregation of a list of result records.     *)
(***************************************************************************)
EXTENDS Naturals, Integers, Sequences, FiniteSets, TLC

\* ------------------------------------------------------------------ bounds
MaxGpus == 2        \* GPUConfigs handed to load_runtimes
MaxRuntimes == 1    \* runtimes of the registry during a run
MaxReq == 2         \* requests of one run
MaxAttempts == 2    \* generate calls of one dispatch (the code has no limit)
MaxTime == 2        \* ticks of the wall clock (time.time())
MaxRecords == 1     \* RequestFuncOutput records of one aggregation
MaxLatency == 1     \* request_latency and ttft of a record, in time units
MaxTokens == 2      \* output tokens of a record

\* ------------------------------------------------------------------ values
\* The wall clock is read in whole ticks 0..MaxTime; -1 stands for None / not
\* yet assigned. A difference of two readings is measured in ticks rounded up.
\* Request ids: request i draws the rid i; 0 stands for an absent "request_id"
\* key, and for the fresh random_uuid_string() the selection draws when the key
\* is absent.

VARIABLES
  \* registry
  gpu_configs,      \* ModelDetails.gpu_configs: sequence of GPUConfig
  runtimes,         \* ModelDetails.runtimes: sequence of runtime kinds
  remote_boots,     \* indices of gpu_configs for which SSHRuntime booted a remote server
  local_boots,      \* indices of gpu_configs for which a local server was spawned
  loadpc,           \* position of load_runtimes: idle, loading, loaded, raised
  unreachable,      \* runtimes (indices) whose flush_cache endpoint refuses connections
  flush_calls,      \* runtimes to which requests.get(flush_cache_url) was issued, in order
  flushpc,          \* position of clear_kv_cache: idle, flushing, returned, raised
  \* run
  num_requests,     \* length of the `requests` argument
  request_rate,     \* "inf" or "finite"
  sp_of,            \* request -> the sampling_params mapping its kwargs refer to
  sampling_params,  \* mapping -> value under key "request_id" (0 when absent)
  genpc,            \* position of async_generate_batch_request_per_sec
  next,             \* the request get_request yields next
  created,          \* requests for which create_task(routine(**request)) ran, in order
  tasks,            \* request -> state of its async_send_request coroutine
  now,              \* the wall clock
  start_time,       \* ModelDetails.start_time
  current_experiment_state_time,
  request_sent_time,\* ModelDetails.request_sent_time
  overtaken,        \* TRUE once a coroutine ended before that of an earlier request
  results,          \* the list returned by the run (<<>> until it returns)
  raised,           \* the request whose exception asyncio.gather re-raised (0: none)
  \* arrival offsets (multi_exp_utils.calc_send_out_times)
  copc,             \* position of calc_send_out_times: idle, loop, done
  send_out_times,   \* its local list send_out_times
  \* metrics (benchmark_utils)
  req_func_outputs, \* the RequestFuncOutput records handed to the aggregation
  update_calls,     \* record -> how its latest update_metrics call ended
  benchpc,          \* how the latest gen_benchmark_metrics call ended
  metrics           \* the BenchmarkMetrics it returned

regVars == <<gpu_configs, runtimes, remote_boots, local_boots, loadpc,
             unreachable, flush_calls, flushpc>>
runVars == <<num_requests, request_rate, sp_of, sampling_params, genpc, next,
             created, tasks, now, start_time, current_experiment_state_time,
             request_sent_time, overtaken, results, raised>>
auxVars == <<copc, send_out_times, req_func_outputs, update_calls, benchpc, metrics>>
vars == <<regVars, runVars, auxVars>>

\* ================================================================ registry

\* GPUConfig(gpu_id, url=None, use_ssh=False, ssh_config={}): url and ssh_config
\* are modelled by whether they are set.
GPUConfig == [url : BOOLEAN, use_ssh : BOOLEAN, ssh_config : BOOLEAN]

ConfigLists == UNION {[1..n -> GPUConfig] : n \in 0..MaxGpus}

\* The branch load_runtime takes for one config: use_ssh is tested first, then
\* url. URLRuntime.__init__(self, url, gpu) is called with the keywords
\* cuda_devices= and context_length=, which it does not accept, so the url branch
\* raises TypeError before any runtime is built.
load_runtime(config) ==
  IF config.use_ssh THEN "ssh"
  ELSE IF config.url THEN "TypeError"
  ELSE "local"

\* ModelDetails.__init__
RegistryFresh ==
  /\ runtimes = <<>>
  /\ remote_boots = {}
  /\ local_boots = {}
  /\ loadpc = "idle"
  /\ unreachable = {}
  /\ flush_calls = <<>>
  /\ flushpc = "idle"

\* load_runtimes is entered.
LoadBegin ==
  /\ loadpc = "idle"
  /\ loadpc' = IF Len(gpu_configs) = 0 THEN "loaded" ELSE "loading"
  /\ UNCHANGED <<gpu_configs, runtimes, remote_boots, local_boots,
                 unreachable, flush_calls, flushpc>>
  /\ UNCHANGED <<runVars, auxVars>>

\* One iteration of `for config in gpu_configs: load_runtime(config)`.
\* Constructing SSHRuntime starts the remote server, constructing
\* ExtendedSGLangRuntime spawns a local one.
LoadRuntime ==
  /\ loadpc = "loading"
  /\ LET i == Len(runtimes) + 1
         kind == load_runtime(gpu_configs[i])
         after == IF i = Len(gpu_configs) THEN "loaded" ELSE "loading"
     IN \/ /\ kind = "ssh"
           /\ remote_boots' = remote_boots \cup {i}
           /\ runtimes' = Append(runtimes, kind)
           /\ loadpc' = after
           /\ UNCHANGED local_boots
        \/ /\ kind = "local"
           /\ local_boots' = local_boots \cup {i}
           /\ runtimes' = Append(runtimes, kind)
           /\ loadpc' = after
           /\ UNCHANGED remote_boots
        \/ /\ kind = "TypeError"
           /\ loadpc' = "raised"
           /\ UNCHANGED <<runtimes, remote_boots, local_boots>>
  /\ UNCHANGED <<gpu_configs, unreachable, flush_calls, flushpc>>
  /\ UNCHANGED <<runVars, auxVars>>

\* clear_kv_cache is entered; the environment fixes which endpoints are down.
ClearKvCacheBegin ==
  /\ loadpc \in {"loaded", "raised"}
  /\ flushpc = "idle"
  /\ \E down \in SUBSET (1..Len(runtimes)) : unreachable' = down
  /\ flushpc' = IF Len(runtimes) = 0 THEN "returned" ELSE "flushing"
  /\ UNCHANGED <<gpu_configs, runtimes, remote_boots, local_boots, loadpc, flush_calls>>
  /\ UNCHANGED <<runVars, auxVars>>

\* One iteration of `for runtime in self.runtimes: requests.get(flush_cache_url)`:
\* requests.get raises ConnectionError for an unreachable endpoint and nothing
\* catches it.
ClearKvCacheStep ==
  /\ flushpc = "flushing"
  /\ LET i == Len(flush_calls) + 1
     IN /\ flush_calls' = Append(flush_calls, i)
        /\ flushpc' = IF i \in unreachable THEN "raised"
                      ELSE IF i = Len(runtimes) THEN "returned"
                      ELSE "flushing"
  /\ UNCHANGED <<gpu_configs, runtimes, remote_boots, local_boots, loadpc, unreachable>>
  /\ UNCHANGED <<runVars, auxVars>>

\* ===================================================================== run

Requests == 1..num_requests

\* Local state of one async_send_request coroutine before create_task.
\*   pc            none, created, to_thread, in_select, selected, posting,
\*                 streaming, done, failed
\*   start_time    the local start_time (line 206)
\*   router_rid    request id handed to request_router.select_runtime
\*                 (-1: not called yet, 0: a fresh uuid)
\*   runtime       index (1-based) of the runtime the selection returned, 0: none
\*   selects       calls of request_router.select_runtime made for this request
\*   posts         runtime of every session.post, in order
\*   chunks        the local chunks, by whether it is empty: "empty", "some"
\*   ttft, request_latency, global_time   locals of the retry loop
\*   errors        responses that carried an error field
\*   last          how the latest attempt ended: "", refused, ok, error, garbage
\*   exc           exception that ended the coroutine ("" if none)
\*   returned      result records the coroutine returned
\*   began, attempt_at, first_chunk_at, ended     clock readings of the events
\*                 (dispatch started, latest post, first chunk of the latest
\*                 attempt, latest stream completion), kept for the properties
NewTask ==
  [pc |-> "none", start_time |-> -1, router_rid |-> -1, runtime |-> 0,
   selects |-> 0, posts |-> <<>>, chunks |-> "empty", ttft |-> 0,
   request_latency |-> -1, global_time |-> -1, errors |-> 0, last |-> "",
   exc |-> "", returned |-> 0,
   began |-> -1, attempt_at |-> -1, first_chunk_at |-> -1, ended |-> -1]

\* The event loop runs one coroutine at a time: a task's step runs only while
\* the generator coroutine is suspended (in asyncio.sleep or in asyncio.gather)
\* or has ended.
LoopFree == genpc \in {"sleeping", "gathering", "returned", "raised"}

Ended(i) == tasks[i].pc \in {"done", "failed"}

\* ModelDetails.__init__ and the arguments of one run over a loaded registry.
RunFresh ==
  /\ genpc = "init"
  /\ next = 1
  /\ created = <<>>
  /\ tasks = [i \in Requests |-> NewTask]
  /\ now = 0
  /\ current_experiment_state_time = -1
  /\ request_sent_time = <<>>
  /\ overtaken = FALSE
  /\ results = <<>>
  /\ raised = 0

\* Lines 182, 194-196: the run is entered.
StartRun ==
  /\ genpc = "init"
  /\ current_experiment_state_time' = now
  /\ start_time' = IF start_time = -1 THEN now ELSE start_time
  /\ genpc' = "running"
  /\ UNCHANGED <<num_requests, request_rate, sp_of, sampling_params, next, created,
                 tasks, now, request_sent_time, overtaken, results, raised>>
  /\ UNCHANGED <<regVars, auxVars>>

\* time.time() advances.
Tick ==
  /\ now < MaxTime
  /\ now' = now + 1
  /\ UNCHANGED <<num_requests, request_rate, sp_of, sampling_params, genpc, next,
                 created, tasks, start_time, current_experiment_state_time,
                 request_sent_time, overtaken, results, raised>>
  /\ UNCHANGED <<regVars, auxVars>>

\* Variant of MoreRequests: the loop stops one request early.
MoreRequestsDropLast == next < num_requests

\* `for request in input_requests` of get_request has a request left.
MoreRequests == next <= num_requests

\* Variant of AfterYield: the generator suspends after every request, also at an
\* unbounded rate (a sleep of zero seconds still yields to the event loop).
AfterYieldAlwaysSleeps == "sleeping"

\* Lines 190-193 after `yield request`: at an unbounded rate the generator
\* continues with the next request at once, otherwise it awaits asyncio.sleep.
AfterYield == IF request_rate = "inf" THEN "running" ELSE "sleeping"

\* Lines 188-189, 197-199: get_request yields the next request and the run
\* creates its task.
Dispatch ==
  /\ genpc = "running"
  /\ MoreRequests
  /\ created' = Append(created, next)
  /\ tasks' = [tasks EXCEPT ![next].pc = "created"]
  /\ next' = next + 1
  /\ genpc' = AfterYield
  /\ UNCHANGED <<num_requests, request_rate, sp_of, sampling_params, now, start_time,
                 current_experiment_state_time, request_sent_time, overtaken,
                 results, raised>>
  /\ UNCHANGED <<regVars, auxVars>>

\* Variant of SleepCanEnd (closed loop): the next arrival waits until every
\* request dispatched so far has ended.
SleepUntilEarlierEnded == \A i \in Requests : tasks[i].pc \in {"none", "done", "failed"}

\* The sleep of line 193 can end: the loop first runs the handles that were
\* ready when the generator suspended (the first step of the task just created);
\* nothing else is waited for.
SleepCanEnd == \A i \in Requests : tasks[i].pc # "created"

\* Line 193: asyncio.sleep(interval) returns.
Wake ==
  /\ genpc = "sleeping"
  /\ SleepCanEnd
  /\ genpc' = "running"
  /\ UNCHANGED <<num_requests, request_rate, sp_of, sampling_params, next, created,
                 tasks, now, start_time, current_experiment_state_time,
                 request_sent_time, overtaken, results, raised>>
  /\ UNCHANGED <<regVars, auxVars>>

\* Line 200: the generator is exhausted and the run awaits asyncio.gather(*tasks).
Gather ==
  /\ genpc = "running"
  /\ ~MoreRequests
  /\ genpc' = "gathering"
  /\ UNCHANGED <<num_requests, request_rate, sp_of, sampling_params, next, created,
                 tasks, now, start_time, current_experiment_state_time,
                 request_sent_time, overtaken, results, raised>>
  /\ UNCHANGED <<regVars, auxVars>>

\* The record async_send_request returns (lines 239-246).
Record(i) ==
  [request_latency |-> tasks[i].request_latency, TTFT |-> tasks[i].ttft,
   global_time |-> tasks[i].global_time, rid |-> i]

\* Variant of GatherHasResult: gather(return_exceptions=True), which has a
\* result once every task ended, however it ended.
GatherReturnExceptions == \A i \in Requests : tasks[i].pc \in {"done", "failed"}

\* gather without return_exceptions: it has a result once every task returned.
GatherHasResult == \A i \in Requests : tasks[i].pc = "done"

\* Variant of GatherReturn: the results come in the order of completion (the
\* reverse of the input order once a later request ended first).
GatherReturnAsCompleted ==
  /\ genpc = "gathering"
  /\ GatherHasResult
  /\ results' = [k \in 1..Len(created) |->
                   Record(created[IF overtaken THEN Len(created) + 1 - k ELSE k])]
  /\ genpc' = "returned"
  /\ UNCHANGED <<num_requests, request_rate, sp_of, sampling_params, next, created,
                 tasks, now, start_time, current_experiment_state_time,
                 request_sent_time, overtaken, raised>>
  /\ UNCHANGED <<regVars, auxVars>>

\* Lines 200-201: gather returns the results in the order of its arguments.
GatherReturn ==
  /\ genpc = "gathering"
  /\ GatherHasResult
  /\ results' = [k \in 1..Len(created) |-> Record(created[k])]
  /\ genpc' = "returned"
  /\ UNCHANGED <<num_requests, request_rate, sp_of, sampling_params, next, created,
                 tasks, now, start_time, current_experiment_state_time,
                 request_sent_time, overtaken, raised>>
  /\ UNCHANGED <<regVars, auxVars>>

\* Variant of GatherRaise: the tasks still in flight are cancelled when the
\* exception is re-raised.
GatherRaiseCancelsRest ==
  /\ genpc = "gathering"
  /\ \E i \in Requests :
       /\ tasks[i].pc = "failed"
       /\ raised' = i
  /\ genpc' = "raised"
  /\ tasks' = [i \in Requests |->
                 IF Ended(i) THEN tasks[i]
                 ELSE [tasks[i] EXCEPT !.pc = "failed", !.exc = "cancelled"]]
  /\ UNCHANGED <<num_requests, request_rate, sp_of, sampling_params, next, created,
                 now, start_time, current_experiment_state_time,
                 request_sent_time, overtaken, results>>
  /\ UNCHANGED <<regVars, auxVars>>

\* Line 200: gather re-raises the exception of a task that raised; the other
\* tasks are not cancelled.
GatherRaise ==
  /\ genpc = "gathering"
  /\ \E i \in Requests :
       /\ tasks[i].pc = "failed"
       /\ raised' = i
  /\ genpc' = "raised"
  /\ UNCHANGED <<num_requests, request_rate, sp_of, sampling_params, next, created,
                 tasks, now, start_time, current_experiment_state_time,
                 request_sent_time, overtaken, results>>
  /\ UNCHANGED <<regVars, auxVars>>

\* ------------------------------------------------------ async_send_request

taskFrame == <<num_requests, request_rate, sp_of, genpc, next, created, now,
               start_time, current_experiment_state_time, results, raised>>

\* The coroutine of request i moves to state t; it is noted when it ends
\* before the coroutine of an earlier request has.
Step(i, t) ==
  /\ tasks' = [tasks EXCEPT ![i] = t]
  /\ overtaken' = \/ overtaken
                  \/ /\ t.pc \in {"done", "failed"}
                     /\ \E j \in 1..(i - 1) : ~Ended(j)

\* Lines 206-214, up to the await: the first step of the task. Tasks start in
\* the order of their creation (the loop's ready queue is first in, first out).
TaskStart(i) ==
  /\ LoopFree
  /\ tasks[i].pc = "created"
  /\ \A j \in 1..(i - 1) : tasks[j].pc # "created"
  /\ sampling_params' = [sampling_params EXCEPT ![sp_of[i]] = i]
  /\ Step(i, [tasks[i] EXCEPT !.pc = "to_thread", !.start_time = now, !.began = now])
  /\ UNCHANGED <<taskFrame, request_sent_time>>
  /\ UNCHANGED <<regVars, auxVars>>

\* Lines 125-127, in a worker thread of the default executor (it has at least
\* five workers, more than the requests of a run here): the two pops, then
\* request_router.select_runtime is called.
SelectCall(i) ==
  /\ tasks[i].pc = "to_thread"
  /\ sampling_params' = [sampling_params EXCEPT ![sp_of[i]] = 0]
  /\ Step(i, [tasks[i] EXCEPT !.pc = "in_select",
                              !.router_rid = sampling_params[sp_of[i]],
                              !.selects = @ + 1])
  /\ UNCHANGED <<taskFrame, request_sent_time>>
  /\ UNCHANGED <<regVars, auxVars>>

\* Lines 127-128, in the worker thread: the Router returns an index and
\* self.runtimes[runtime_id] is returned; with no runtime the call raises.
SelectReturn(i) ==
  /\ tasks[i].pc = "in_select"
  /\ \E r \in 0..Len(runtimes) :
       /\ (r = 0) <=> (Len(runtimes) = 0)
       /\ Step(i, [tasks[i] EXCEPT !.pc = "selected", !.runtime = r])
  /\ UNCHANGED <<taskFrame, sampling_params, request_sent_time>>
  /\ UNCHANGED <<regVars, auxVars>>

\* `time.time() - since`. Every difference the code takes is between two
\* readings with a suspension of the coroutine between them (the hand-off to
\* the worker thread, a network round trip), so it is positive: it is measured
\* in ticks rounded up, and is one tick when both readings fall in one tick.
Elapsed(since) == now - since + 1

\* Variant of TaskResume: a selection that found no runtime ends the coroutine
\* with a returned record instead of an exception.
TaskResumeSkipsNoRuntime(i) ==
  /\ LoopFree
  /\ tasks[i].pc = "selected"
  /\ IF tasks[i].runtime = 0
     THEN /\ Step(i, [tasks[i] EXCEPT !.pc = "done", !.returned = @ + 1])
          /\ UNCHANGED request_sent_time
     ELSE /\ request_sent_time' = Append(request_sent_time, Elapsed(start_time))
          /\ Step(i, [tasks[i] EXCEPT !.pc = "posting",
                                      !.posts = <<tasks[i].runtime>>,
                                      !.attempt_at = now])
  /\ UNCHANGED <<taskFrame, sampling_params>>
  /\ UNCHANGED <<regVars, auxVars>>

\* Lines 212-220: the await of to_thread ends; the selection's exception is
\* raised, or the send time is logged and the first generate call is posted.
TaskResume(i) ==
  /\ LoopFree
  /\ tasks[i].pc = "selected"
  /\ IF tasks[i].runtime = 0
     THEN /\ Step(i, [tasks[i] EXCEPT !.pc = "failed", !.exc = "select"])
          /\ UNCHANGED request_sent_time
     ELSE /\ request_sent_time' = Append(request_sent_time, Elapsed(start_time))
          /\ Step(i, [tasks[i] EXCEPT !.pc = "posting",
                                      !.posts = <<tasks[i].runtime>>,
                                      !.attempt_at = now])
  /\ UNCHANGED <<taskFrame, sampling_params>>
  /\ UNCHANGED <<regVars, auxVars>>

\* Variant of PostConnected: ttft is not reset when an attempt begins, so the
\* first chunk of the first attempt fixes it.
PostConnectedKeepsTtft(i) ==
  /\ LoopFree
  /\ tasks[i].pc = "posting"
  /\ Step(i, [tasks[i] EXCEPT !.pc = "streaming", !.chunks = "empty",
                              !.first_chunk_at = -1])
  /\ UNCHANGED <<taskFrame, sampling_params, request_sent_time>>
  /\ UNCHANGED <<regVars, auxVars>>

\* Lines 220-227: the server answers the post; the stream is open.
PostConnected(i) ==
  /\ LoopFree
  /\ tasks[i].pc = "posting"
  /\ Step(i, [tasks[i] EXCEPT !.pc = "streaming", !.chunks = "empty", !.ttft = 0,
                              !.first_chunk_at = -1])
  /\ UNCHANGED <<taskFrame, sampling_params, request_sent_time>>
  /\ UNCHANGED <<regVars, auxVars>>

\* Line 220: the connection is refused; session.post raises.
PostRefused(i) ==
  /\ LoopFree
  /\ tasks[i].pc = "posting"
  /\ Step(i, [tasks[i] EXCEPT !.pc = "failed", !.exc = "refused", !.last = "refused"])
  /\ UNCHANGED <<taskFrame, sampling_params, request_sent_time>>
  /\ UNCHANGED <<regVars, auxVars>>

\* Lines 229-230: the first chunk sets ttft, a later one leaves it.
FirstToken(t) == IF t.ttft = 0 THEN Elapsed(t.start_time) ELSE t.ttft

\* Lines 228-231: one chunk arrives (any number of chunks may).
RecvChunk(i) ==
  /\ LoopFree
  /\ tasks[i].pc = "streaming"
  /\ Step(i, [tasks[i] EXCEPT
               !.ttft = FirstToken(tasks[i]),
               !.chunks = "some",
               !.first_chunk_at = IF tasks[i].chunks = "empty" THEN now ELSE @])
  /\ UNCHANGED <<taskFrame, sampling_params, request_sent_time>>
  /\ UNCHANGED <<regVars, auxVars>>

\* Variant of RequestLatency: the latency restarts with every attempt.
RequestLatencyPerAttempt(t) == Elapsed(t.attempt_at)

\* Line 232.
RequestLatency(t) == Elapsed(t.start_time)

\* The coroutine raises exception e.
Raise(t, e) == [t EXCEPT !.pc = "failed", !.exc = e]

\* Lines 238-246: the loop is left and the record is returned. A parsed result
\* carries meta_info (the generate interface) and request_latency is positive,
\* so lines 242-243 do not raise.
Return(t) == [t EXCEPT !.pc = "done", !.returned = @ + 1]

\* Variant of Retry: the loop comes round to a new selection before it posts.
RetryReselect(t) ==
  [t EXCEPT !.pc = "posting", !.errors = @ + 1, !.selects = @ + 1,
            !.posts = Append(@, t.runtime), !.attempt_at = now]

\* Lines 219-225 on `while True` coming round: the same rid is posted again to
\* the runtime selected before the loop.
Retry(t) ==
  [t EXCEPT !.pc = "posting", !.errors = @ + 1,
            !.posts = Append(@, t.runtime), !.attempt_at = now]

\* Variant of Decode: a body that is not JSON becomes a returned record.
DecodeErrorRecord(t) ==
  IF t.last = "error" THEN Retry(t) ELSE Return(t)

\* Variant of Decode: the loop is left on any result, an error is not sent again.
DecodeNoRetry(t) ==
  IF t.last = "garbage" THEN Raise(t, "json") ELSE Return(t)

\* Lines 234-238: the drained body (t.last) is decoded; json.loads raises on a
\* body that is not JSON, a result with an error field is sent again, any other
\* result leaves the loop.
Decode(t) ==
  IF t.last = "garbage" THEN Raise(t, "json")
  ELSE IF t.last = "error" THEN Retry(t)
  ELSE Return(t)

\* Variant of EndStream: an attempt that is sent again logs its send time too.
EndStreamLogsRetry(i) ==
  /\ LoopFree
  /\ tasks[i].pc = "streaming"
  /\ \E body \in {"ok", "error", "garbage"} :
       /\ tasks[i].chunks = "empty" => body = "garbage"
       /\ body = "error" => Len(tasks[i].posts) < MaxAttempts
       /\ Step(i, Decode([tasks[i] EXCEPT
                           !.request_latency = RequestLatency(tasks[i]),
                           !.global_time = Elapsed(current_experiment_state_time),
                           !.ended = now,
                           !.last = body]))
       /\ request_sent_time' = IF body = "error"
                               THEN Append(request_sent_time, Elapsed(start_time))
                               ELSE request_sent_time
  /\ UNCHANGED <<taskFrame, sampling_params>>
  /\ UNCHANGED <<regVars, auxVars>>

\* Lines 232-238: the stream ends. An empty body is not JSON. The generate
\* calls of one dispatch are capped at MaxAttempts: no further error response
\* is drawn for the last one.
EndStream(i) ==
  /\ LoopFree
  /\ tasks[i].pc = "streaming"
  /\ \E body \in {"ok", "error", "garbage"} :
       /\ tasks[i].chunks = "empty" => body = "garbage"
       /\ body = "error" => Len(tasks[i].posts) < MaxAttempts
       /\ Step(i, Decode([tasks[i] EXCEPT
                           !.request_latency = RequestLatency(tasks[i]),
                           !.global_time = Elapsed(current_experiment_state_time),
                           !.ended = now,
                           !.last = body]))
  /\ UNCHANGED <<taskFrame, sampling_params, request_sent_time>>
  /\ UNCHANGED <<regVars, auxVars>>

\* ========================================================= arrival offsets

\* calc_send_out_times has not been called.
CalcFresh ==
  /\ copc = "idle"
  /\ send_out_times = <<>>

calcFrame == <<regVars, runVars, req_func_outputs, update_calls, benchpc, metrics>>

\* Lines 50-53: the interval before the next request. At an unbounded rate it
\* is 0; otherwise it is a draw of np.random.exponential, which is positive: one
\* unit here, so that an offset counts the intervals before it.
Interval == IF request_rate = "inf" THEN 0 ELSE 1

\* Line 49 leaves range(len(requests) - 1) iterations to run.
CalcMore == Len(send_out_times) < num_requests

\* Line 48: send_out_times = [0].
CalcBegin ==
  /\ copc = "idle"
  /\ send_out_times' = <<0>>
  /\ copc' = "loop"
  /\ UNCHANGED calcFrame

\* Lines 49-53: one iteration of the loop.
CalcStep ==
  /\ copc = "loop"
  /\ CalcMore
  /\ send_out_times' = Append(send_out_times,
                              send_out_times[Len(send_out_times)] + Interval)
  /\ UNCHANGED copc
  /\ UNCHANGED calcFrame

\* Lines 54-55: the last offset is appended once more and the list returned.
CalcReturn ==
  /\ copc = "loop"
  /\ ~CalcMore
  /\ send_out_times' = Append(send_out_times, send_out_times[Len(send_out_times)])
  /\ copc' = "done"
  /\ UNCHANGED calcFrame

\* ================================================================= metrics

\* gen_benchmark_metrics(..., time_limit: int = 100, ...).
TimeLimit == 100

\* An unset (None) field of a record; durations and token counts are whole
\* numbers, -1 is an unset output_len. A quotient a / b is the pair <<a, b>>.
None == <<>>

\* The result of numpy's average of an empty list.
NaN == <<>>

\* A tpot or prefill_decode_ratio passed to the constructor of a record: a
\* value update_metrics does not compute (what it computes is not negative).
Preset == <<-1, 1>>

\* RequestFuncOutput (lines 10-23), by the fields the aggregation reads; tokens
\* is the number of tokens the tokenizer finds in generated_text, which is read
\* only when output_len is unset. RequestFuncOutput() itself is the record with
\* success FALSE, request_latency, ttft and global_time 0 and the rest unset.
RequestFuncOutput ==
  {r \in [success : BOOLEAN, request_latency : 0..MaxLatency, ttft : 0..MaxLatency,
          global_time : {0, TimeLimit + 1}, output_len : -1..MaxTokens,
          tokens : 0..MaxTokens, tpot : {None, Preset},
          prefill_decode_ratio : {None, Preset}] :
     /\ r.ttft <= r.request_latency
     /\ r.output_len # -1 => r.tokens = 0}

Records == 1..Len(req_func_outputs)

\* No aggregation has been called.
NoMetrics ==
  [num_finished_requests |-> -1, average_finished_topt |-> NaN,
   prefill_decode_ratio |-> NaN]

\* No record list has been built.
MetricsFresh ==
  /\ req_func_outputs = <<>>
  /\ update_calls = <<>>
  /\ benchpc = "idle"
  /\ metrics = NoMetrics

metricsFrame == <<regVars, runVars, copc, send_out_times>>

\* Variant of ResolveOutputLen: the text is tokenized on every call.
ResolveOutputLenAlways(r) == r.tokens

\* Lines 30-31: output_len is computed from the text only when it is unset.
ResolveOutputLen(r) == IF r.output_len = -1 THEN r.tokens ELSE r.output_len

\* Variant of DefinesTpot: a single output token suffices.
DefinesTpotFromOne(out) == out >= 1

\* Line 33.
DefinesTpot(out) == out > 1

\* Line 35 divides by request_latency: Python raises ZeroDivisionError when it
\* is 0 (for int and float alike).
ZeroDivision(r) == r.request_latency = 0

\* Lines 25-35: the record after update_metrics; when line 35 raises, the
\* assignments of lines 31 and 34 have been made and prefill_decode_ratio is
\* left as it was.
update_metrics(r) ==
  LET out == ResolveOutputLen(r)
      upto34 == [r EXCEPT !.output_len = out,
                          !.tpot = IF DefinesTpot(out)
                                   THEN <<r.request_latency - r.ttft, out - 1>>
                                   ELSE @]
  IN IF ZeroDivision(r) THEN upto34
     ELSE [upto34 EXCEPT !.prefill_decode_ratio = <<r.ttft, r.request_latency>>]

\* result.update_metrics(tokenizer), called on record k alone.
UpdateMetrics(k) ==
  /\ req_func_outputs' = [req_func_outputs EXCEPT ![k] = update_metrics(@)]
  /\ update_calls' = [update_calls EXCEPT
                        ![k] = IF ZeroDivision(req_func_outputs[k])
                               THEN "raised" ELSE "returned"]
  /\ UNCHANGED <<benchpc, metrics>>
  /\ UNCHANGED metricsFrame

\* The sum of a list of quotients.
RECURSIVE SumOf(_)
SumOf(xs) ==
  IF xs = <<>> THEN <<0, 1>>
  ELSE LET rest == SumOf(Tail(xs))
       IN <<xs[1][1] * rest[2] + rest[1] * xs[1][2], xs[1][2] * rest[2]>>

\* np.average of a list of quotients: NaN (with a warning, no exception) for
\* the empty list.
np_average(xs) ==
  IF xs = <<>> THEN NaN
  ELSE LET total == SumOf(xs) IN <<total[1], total[2] * Len(xs)>>

\* Lines 84, 87: the record counts as finished.
Finished(r) == r.success /\ r.global_time <= TimeLimit

\* The filter of lines 86-88.
HasFinishedTpot(r) == r.tpot # None /\ Finished(r)

\* [result.tpot for result in rs].
TpotsOf(rs) == [k \in 1..Len(rs) |-> rs[k].tpot]

\* [result.prefill_decode_ratio for result in rs].
RatiosOf(rs) == [k \in 1..Len(rs) |-> rs[k].prefill_decode_ratio]

\* Lines 76-124 on the updated records, by the fields of BenchmarkMetrics that
\* depend on which records finished.
BenchmarkMetrics(rs) ==
  [num_finished_requests |-> Cardinality({k \in 1..Len(rs) : Finished(rs[k])}),
   average_finished_topt |-> np_average(TpotsOf(SelectSeq(rs, HasFinishedTpot))),
   prefill_decode_ratio |-> np_average(RatiosOf(rs))]

\* The record at which the loop of lines 73-74 raises (0: none does).
FirstZeroDivision(rs) ==
  IF \E k \in 1..Len(rs) : ZeroDivision(rs[k])
  THEN CHOOSE k \in 1..Len(rs) :
         /\ ZeroDivision(rs[k])
         /\ \A j \in 1..(k - 1) : ~ZeroDivision(rs[j])
  ELSE 0

\* Lines 68-124: one call of gen_benchmark_metrics on the records, with a
\* positive overall_latency. The records are updated in order up to the first
\* whose update_metrics raises; the exception leaves the call.
GenBenchmarkMetrics ==
  /\ Len(req_func_outputs) >= 1
  /\ LET stop == FirstZeroDivision(req_func_outputs)
         updated == [k \in Records |->
                       IF stop = 0 \/ k <= stop
                       THEN update_metrics(req_func_outputs[k])
                       ELSE req_func_outputs[k]]
     IN /\ req_func_outputs' = updated
        /\ update_calls' = [k \in Records |->
                              IF stop = 0 \/ k < stop THEN "returned"
                              ELSE IF k = stop THEN "raised"
                              ELSE update_calls[k]]
        /\ IF stop = 0
           THEN benchpc' = "returned" /\ metrics' = BenchmarkMetrics(updated)
           ELSE benchpc' = "raised" /\ metrics' = NoMetrics
  /\ UNCHANGED metricsFrame

\* ============================================================ specifications

\* A run over a registry that load_runtimes filled with local runtimes (or over
\* an empty one), of nreq requests that share one sampling_params mapping or
\* have one each; ModelDetails.start_time may be left from an earlier run.
RunOf(nreq, shared) ==
  /\ \E n \in 0..MaxRuntimes :
       /\ gpu_configs = [k \in 1..n |-> [url |-> FALSE, use_ssh |-> FALSE,
                                          ssh_config |-> FALSE]]
       /\ runtimes = [k \in 1..n |-> "local"]
       /\ local_boots = 1..n
  /\ remote_boots = {}
  /\ loadpc = "loaded"
  /\ unreachable = {}
  /\ flush_calls = <<>>
  /\ flushpc = "idle"
  /\ num_requests = nreq
  /\ request_rate \in {"inf", "finite"}
  /\ sp_of = [i \in Requests |-> IF shared THEN 1 ELSE i]
  /\ sampling_params = [m \in Requests |-> 0]
  /\ start_time \in {-1, 0}
  /\ RunFresh
  /\ CalcFresh
  /\ MetricsFresh

Next ==
  \/ StartRun
  \/ Dispatch
  \/ Wake
  \/ Gather
  \/ GatherReturn
  \/ GatherRaise
  \/ \E i \in Requests : TaskStart(i)
  \/ \E i \in Requests : SelectCall(i)
  \/ \E i \in Requests : SelectReturn(i)
  \/ \E i \in Requests : TaskResume(i)
  \/ \E i \in Requests : PostConnected(i)
  \/ \E i \in Requests : PostRefused(i)
  \/ \E i \in Requests : RecvChunk(i)
  \/ \E i \in Requests : EndStream(i)

\* Runs of up to MaxReq requests, each with its own sampling_params, whose
\* events all fall in one tick of the clock (no step of the run depends on a
\* clock reading).
Init == \E n \in 0..MaxReq : RunOf(n, FALSE)

Spec == Init /\ [][Next]_vars

\* Runs of one request with the clock advancing between the steps.
InitTimed == RunOf(1, FALSE)

NextTimed == Next \/ Tick

SpecTimed == InitTimed /\ [][NextTimed]_vars

\* Provisioning and cache flush of a fresh registry, before any run.
InitRegistry ==
  /\ gpu_configs \in ConfigLists
  /\ RegistryFresh
  /\ num_requests = 0
  /\ request_rate = "inf"
  /\ sp_of = <<>>
  /\ sampling_params = <<>>
  /\ start_time = -1
  /\ RunFresh
  /\ CalcFresh
  /\ MetricsFresh

NextRegistry ==
  \/ LoadBegin
  \/ LoadRuntime
  \/ ClearKvCacheBegin
  \/ ClearKvCacheStep

SpecRegistry == InitRegistry /\ [][NextRegistry]_vars

\* A run that follows the computation of its arrival offsets.
NextArrival ==
  \/ CalcBegin
  \/ CalcStep
  \/ CalcReturn
  \/ copc = "done" /\ Next

SpecArrival == Init /\ [][NextArrival]_vars

\* Runs of at least two requests that share one sampling_params mapping.
InitShared == \E n \in 2..MaxReq : RunOf(n, TRUE)

SpecShared == InitShared /\ [][Next]_vars

\* Aggregation of a list of records, before any run.
InitMetrics ==
  /\ gpu_configs = <<>>
  /\ RegistryFresh
  /\ num_requests = 0
  /\ request_rate = "inf"
  /\ sp_of = <<>>
  /\ sampling_params = <<>>
  /\ start_time = -1
  /\ RunFresh
  /\ CalcFresh
  /\ \E n \in 1..MaxRecords : req_func_outputs \in [1..n -> RequestFuncOutput]
  /\ update_calls = [k \in Records |-> "none"]
  /\ benchpc = "idle"
  /\ metrics = NoMetrics

NextMetrics ==
  \/ \E k \in Records : UpdateMetrics(k)
  \/ GenBenchmarkMetrics

SpecMetrics == InitMetrics /\ [][NextMetrics]_vars

\* ================================================================ properties

InFlight(i) == tasks[i].pc \in {"created", "to_thread", "in_select", "selected",
                                "posting", "streaming"}

TransportError(i) == tasks[i].last \in {"refused", "garbage"}

\* C1: the run starts exactly one dispatch per request, in the order of the
\* input sequence: the k-th create_task is for request k, a request has a task
\* exactly when it is among the first next-1, and once the generator is
\* exhausted all num_requests requests have been dispatched.
C1_DispatchInOrder ==
  /\ \A k \in 1..Len(created) : created[k] = k
  /\ Len(created) <= num_requests
  /\ \A i \in Requests : (tasks[i].pc # "none") <=> (i <= Len(created))
  /\ genpc \in {"gathering", "returned", "raised"} => Len(created) = num_requests

\* C1 witness: a finite-rate run of MaxReq requests has returned although a
\* later request completed before an earlier one.
C1_Witness ==
  /\ genpc = "returned"
  /\ request_rate = "finite"
  /\ num_requests = MaxReq
  /\ overtaken

\* C2: open loop. The generator can always take its next step whatever the
\* dispatched requests are doing: with a request left and the loop running,
\* the dispatch is enabled; asleep between two arrivals, with the first step of
\* every created task run, the wake-up is enabled.
C2_OpenLoop ==
  /\ (genpc = "running" /\ next <= num_requests) => ENABLED Dispatch
  /\ (genpc = "sleeping" /\ \A i \in Requests : tasks[i].pc # "created")
       => ENABLED Wake

\* C2 witness: at a finite rate the last of MaxReq requests has been dispatched
\* while every earlier one is still in flight, the first not even selected.
C2_Witness ==
  /\ request_rate = "finite"
  /\ num_requests = MaxReq
  /\ Len(created) = MaxReq
  /\ \A i \in Requests : InFlight(i)
  /\ tasks[1].pc = "to_thread"

\* C3 as stated: a refused connection or an unparseable response ends the
\* dispatch with one returned record, never with an exception.
C3_ErrorBecomesRecord ==
  \A i \in Requests :
    TransportError(i) => /\ tasks[i].pc # "failed"
                         /\ tasks[i].exc = ""

\* C3 amended: a dispatch returns at most one record, and returns it exactly
\* when it ends after a parsed response without an error field; a refused
\* connection or an unparseable response ends it with an exception and no
\* record.
C3_RecordOrException ==
  \A i \in Requests :
    /\ tasks[i].returned <= 1
    /\ (tasks[i].pc = "done") <=> (tasks[i].returned = 1)
    /\ tasks[i].pc = "done" => (tasks[i].last = "ok" /\ tasks[i].exc = "")
    /\ TransportError(i) => /\ tasks[i].pc = "failed"
                            /\ tasks[i].returned = 0
                            /\ tasks[i].exc \in {"refused", "json"}

\* C3 witness: a dispatch ended on an unparseable response and the run raised.
C3_Witness ==
  \E i \in Requests :
    /\ tasks[i].last = "garbage"
    /\ tasks[i].pc = "failed"
    /\ genpc = "raised"

C5_RetryUntilAccepted ==
  \A i \in Requests :
    /\ Len(tasks[i].posts) >= 1 => Len(tasks[i].posts) = tasks[i].errors + 1
    /\ tasks[i].pc = "done" => /\ tasks[i].last = "ok"
                               /\ Len(tasks[i].posts) = tasks[i].errors + 1
                               /\ tasks[i].returned = 1
    /\ tasks[i].last = "error" => /\ tasks[i].pc \in {"posting", "streaming"}
                                  /\ tasks[i].errors >= 1
                                  /\ tasks[i].returned = 0
                                  /\ tasks[i].exc = ""

\* C5 witness: a dispatch returned its record after an error response.
C5_Witness ==
  \E i \in Requests :
    /\ tasks[i].pc = "done"
    /\ tasks[i].errors >= 1
    /\ Len(tasks[i].posts) = tasks[i].errors + 1

\* C6: the request_latency of a returned record is the time from the start of
\* the dispatch to the completion of the stream of the final attempt.
C6_LatencyFromOriginalStart ==
  \A i \in Requests :
    tasks[i].pc = "done" =>
      /\ tasks[i].request_latency = tasks[i].ended - tasks[i].began + 1
      /\ tasks[i].began <= tasks[i].attempt_at

\* C6 witness: a record returned after a retry whose final attempt was posted
\* at a later tick than the dispatch started.
C6_Witness ==
  \E i \in Requests :
    /\ tasks[i].pc = "done"
    /\ tasks[i].errors >= 1
    /\ tasks[i].attempt_at > tasks[i].began

\* C7 as stated: at most one Router select call is executing at any moment.
C7_SelectMutex ==
  Cardinality({i \in Requests : tasks[i].pc = "in_select"}) <= 1

\* C8: a transport error of one dispatch is not retried and the run returns no
\* result list: it can only end by gather re-raising the exception of a
\* dispatch that raised.
C8_TransportErrorAbortsRun ==
  /\ \A i \in Requests :
       TransportError(i) => /\ tasks[i].pc = "failed"
                            /\ genpc # "returned"
                            /\ results = <<>>
  /\ genpc = "raised" => /\ raised \in Requests
                         /\ tasks[raised].pc = "failed"
                         /\ results = <<>>
  /\ (genpc = "gathering" /\ \E i \in Requests : TransportError(i))
       => (ENABLED GatherRaise /\ ~ENABLED GatherReturn)

\* C8 witness: the run raised on an unparseable response although another
\* request had returned its record.
C8_Witness ==
  /\ genpc = "raised"
  /\ tasks[raised].last = "garbage"
  /\ \E j \in Requests : tasks[j].pc = "done"

\* C9 as stated: clear_kv_cache ends without failing and has issued the flush
\* call to every runtime of the registry, reachable or not.
C9_FlushBestEffort ==
  flushpc \in {"returned", "raised"} =>
    /\ flushpc = "returned"
    /\ Len(flush_calls) = Len(runtimes)

\* C10 as stated: a GPUConfig with both use_ssh and a url gets no remote server
\* start (and a URL-only runtime).
C10_UrlTakesPrecedence ==
  \A i \in 1..Len(gpu_configs) :
    (gpu_configs[i].use_ssh /\ gpu_configs[i].url) =>
      /\ i \notin remote_boots
      /\ i <= Len(runtimes) => runtimes[i] = "url"

\* C11: a run of at least one request over an empty registry issues no generate
\* call and returns no result list; every dispatch ends with the exception of
\* its selection, and the run can only end by gather re-raising one.
C11_NoRuntimeIsFatal ==
  (Len(runtimes) = 0 /\ num_requests >= 1) =>
    /\ \A i \in Requests :
         /\ tasks[i].posts = <<>>
         /\ tasks[i].pc \notin {"posting", "streaming", "done"}
         /\ tasks[i].pc = "failed" => tasks[i].exc = "select"
    /\ request_sent_time = <<>>
    /\ genpc # "returned"
    /\ results = <<>>
    /\ (genpc = "gathering" /\ \E i \in Requests : tasks[i].pc = "failed")
         => ENABLED GatherRaise

\* C11 witness: the run over an empty registry raised after every one of its
\* MaxReq dispatches failed in the selection.
C11_Witness ==
  /\ Len(runtimes) = 0
  /\ num_requests = MaxReq
  /\ genpc = "raised"
  /\ \A i \in Requests : tasks[i].pc = "failed" /\ tasks[i].selects = 1

\* C12: at an unbounded rate the generator never suspends between dispatches,
\* so no dispatched request has taken a step before the last one is dispatched,
\* and every offset calc_send_out_times computes is zero; at every rate the
\* first request is dispatched without a preceding sleep and the first offset
\* is zero.
C12_UnboundedRateBackToBack ==
  /\ request_rate = "inf" =>
       /\ genpc # "sleeping"
       /\ (\E i \in Requests : tasks[i].pc \notin {"none", "created"})
            => Len(created) = num_requests
       /\ \A k \in 1..Len(send_out_times) : send_out_times[k] = 0
  /\ Len(created) = 0 => genpc # "sleeping"
  /\ Len(send_out_times) >= 1 => send_out_times[1] = 0
  /\ copc = "done" => Len(send_out_times) >= 2

\* C12 witness: at an unbounded rate all MaxReq requests are dispatched, none
\* has started, and the offsets computed for them are all zero.
C12_Witness ==
  /\ request_rate = "inf"
  /\ num_requests = MaxReq
  /\ genpc = "gathering"
  /\ Len(created) = MaxReq
  /\ \A i \in Requests : tasks[i].pc = "created"
  /\ copc = "done"
  /\ send_out_times = [k \in 1..(MaxReq + 1) |-> 0]

\* C13 as stated: every update_metrics call returns and leaves
\* prefill_decode_ratio = ttft / request_latency in the record.
C13_RatioAlwaysComputed ==
  \A k \in Records :
    update_calls[k] # "none" =>
      /\ update_calls[k] = "returned"
      /\ req_func_outputs[k].prefill_decode_ratio =
           <<req_func_outputs[k].ttft, req_func_outputs[k].request_latency>>

\* C14 as stated: after update_metrics a record's tpot is defined if and only
\* if its output_len is greater than 1.
C14_TpotIffOutputLen ==
  \A k \in Records :
    update_calls[k] # "none" =>
      (req_func_outputs[k].tpot # None <=> req_func_outputs[k].output_len > 1)

\* C14 amended: a step that leaves a record gone through update_metrics leaves
\* its tpot at (request_latency - ttft) / (output_len - 1) when its output_len
\* is greater than 1, and at what it was before the step otherwise:
\* update_metrics neither defines nor clears the tpot of a record of at most
\* one output token.
C14_TpotFollowsOutputLen ==
  [][\A k \in Records :
       update_calls'[k] # "none" =>
         LET r == req_func_outputs[k]
             after == req_func_outputs'[k]
         IN /\ after.output_len > 1 =>
                 after.tpot = <<r.request_latency - r.ttft, after.output_len - 1>>
            /\ after.output_len <= 1 => after.tpot = r.tpot]_vars

\* C14 witness: update_metrics returned for a record of one output token whose
\* tpot was given at construction, and for no more than that.
C14_Witness ==
  \E k \in Records :
    /\ update_calls[k] = "returned"
    /\ req_func_outputs[k].output_len = 1
    /\ req_func_outputs[k].tpot = Preset

\* C15 as stated: the aggregation of a non-empty list with no finished record
\* returns metrics with num_finished_requests 0 and average_finished_topt NaN;
\* it does not raise.
C15_NoFinishedGivesNaN ==
  (benchpc # "idle" /\ \A k \in Records : ~Finished(req_func_outputs[k])) =>
    /\ benchpc = "returned"
    /\ metrics.num_finished_requests = 0
    /\ metrics.average_finished_topt = NaN

C17_SentTimeAppendOnly ==
  [][/\ Len(request_sent_time') >= Len(request_sent_time)
     /\ SubSeq(request_sent_time', 1, Len(request_sent_time)) = request_sent_time
     /\ Len(request_sent_time') =
          Cardinality({i \in Requests : Len(tasks'[i].posts) >= 1})
     /\ \A i \in Requests :
          /\ (Len(tasks[i].posts) = 0 /\ Len(tasks'[i].posts) >= 1) =>
               /\ tasks[i].pc = "selected"
               /\ tasks[i].selects = 1
               /\ Len(tasks'[i].posts) = 1
               /\ Len(request_sent_time') = Len(request_sent_time) + 1
          /\ (Len(tasks[i].posts) >= 1 /\ tasks'[i] # tasks[i]) =>
               request_sent_time' = request_sent_time]_vars

\* C17 witness: every one of MaxReq dispatches returned its record, one of them
\* after a retry, and the log has MaxReq entries.
C17_Witness ==
  /\ num_requests = MaxReq
  /\ \A i \in Requests : tasks[i].pc = "done"
  /\ \E i \in Requests : tasks[i].errors >= 1
  /\ Len(request_sent_time) = MaxReq

\* C18 as stated: the request id the Router's select receives for a request
\* is the rid of that request's generate payloads (request i posts the rid i),
\* also when the requests share one sampling_params mapping.
C18_RouterSeesPayloadRid ==
  \A i \in Requests :
    tasks[i].router_rid # -1 => tasks[i].router_rid = i

\* C19: the list the run returns has one record per input request, in input
\* order: entry k is the record of request k, in whatever order the dispatches
\* ended.
C19_ResultsInInputOrder ==
  /\ genpc = "returned" =>
       /\ Len(results) = num_requests
       /\ \A k \in Requests :
            /\ results[k].rid = k
            /\ results[k].request_latency = tasks[k].request_latency
            /\ results[k].TTFT = tasks[k].ttft
            /\ results[k].global_time = tasks[k].global_time
  /\ genpc # "returned" => results = <<>>

\* C19 witness: a run at an unbounded rate returned MaxReq records although a
\* later request ended before an earlier one.
C19_Witness ==
  /\ genpc = "returned"
  /\ request_rate = "inf"
  /\ overtaken
  /\ Len(results) = MaxReq

\* C20: a dispatch that raised leaves the generator able to dispatch the
\* requests that remain and to wake from its sleep; its exception is re-raised
\* only by the gather that follows the last dispatch; no dispatch ends with
\* an exception other than its own, and one in flight can still take its steps
\* after the run raised.
C20_FailureDoesNotStopDispatch ==
  /\ (genpc = "running" /\ next <= num_requests) => ENABLED Dispatch
  /\ (genpc = "sleeping" /\ \A i \in Requests : tasks[i].pc # "created")
       => ENABLED Wake
  /\ raised # 0 =>
       /\ genpc = "raised"
       /\ Len(created) = num_requests
       /\ tasks[raised].pc = "failed"
  /\ genpc \in {"init", "running", "sleeping", "gathering"} => raised = 0
  /\ \A i \in Requests :
       /\ tasks[i].pc = "failed" => tasks[i].exc \in {"select", "refused", "json"}
       /\ tasks[i].pc = "to_thread" => ENABLED SelectCall(i)
       /\ tasks[i].pc = "in_select" => ENABLED SelectReturn(i)
       /\ (genpc = "raised" /\ tasks[i].pc = "selected") => ENABLED TaskResume(i)
       /\ (genpc = "raised" /\ tasks[i].pc = "posting") => ENABLED PostConnected(i)
       /\ (genpc = "raised" /\ tasks[i].pc = "streaming") => ENABLED EndStream(i)

\* C20 witness: at a finite rate a request was dispatched after an earlier one
\* had raised, and nothing has been re-raised yet.
C20_Witness ==
  /\ request_rate = "finite"
  /\ raised = 0
  /\ \E i, j \in Requests :
       /\ i < j
       /\ tasks[i].pc = "failed"
       /\ tasks[j].pc = "created"

\* C21: in every returned record 0 <= TTFT <= request_latency, both measured
\* from the start of the dispatch, and TTFT is the time of the first chunk of
\* the final attempt (a chunk that arrived after the final post), not of an
\* attempt that was answered with an error.
C21_TtftOfFinalAttempt ==
  /\ \A i \in Requests :
       tasks[i].pc = "done" =>
         /\ tasks[i].first_chunk_at >= tasks[i].attempt_at
         /\ tasks[i].first_chunk_at <= tasks[i].ended
         /\ tasks[i].ttft = tasks[i].first_chunk_at - tasks[i].began + 1
         /\ tasks[i].request_latency = tasks[i].ended - tasks[i].began + 1
         /\ 0 <= tasks[i].ttft
         /\ tasks[i].ttft <= tasks[i].request_latency
  /\ \A k \in 1..Len(results) :
       /\ 0 <= results[k].TTFT
       /\ results[k].TTFT <= results[k].request_latency
       /\ results[k].TTFT = tasks[k].ttft

\* C21 witness: the run returned the record of a dispatch whose first attempt
\* was answered with an error (after its chunks had arrived) and whose final
\* attempt was posted at a later tick; its TTFT lies strictly between the time
\* of the first attempt's chunks and the request_latency.
C21_Witness ==
  /\ genpc = "returned"
  /\ \E i \in Requests :
       /\ tasks[i].pc = "done"
       /\ tasks[i].errors >= 1
       /\ tasks[i].attempt_at > tasks[i].began
       /\ tasks[i].ttft > 1
       /\ tasks[i].ttft < tasks[i].request_latency

====
